---- MODULE Spec2Model ----
(***************************************************************************)
(* sync-github-variable: reconciliation of a local CSV file of variables   *)
(* against the GitHub Actions variables of a repository or environment.    *)
(*                                                                         *)
(* Three specifications share the variables of this module:                *)
(*   SpecCompare  the pure function CompareSets on arbitrary inputs        *)
(*   SpecFetch    the pagination loop of FetchGitHubVariables              *)
(*   Spec         one run of main(): fetch, diff, confirm, backup, apply   *)
(***************************************************************************)
EXTENDS Integers, Sequences, FiniteSets, TLC

\* ---------------------------------------------------------------- bounds
MaxLocal == 2          \* longest local entry list
MaxRemote == 2         \* longest remote entry list
MaxN == 250            \* largest remote collection in the pagination model
MaxExternal == 1       \* writes by another client during the apply loop

\* ------------------------------------------------------------ data model
Names == {"A", "B"}
Values == {"1", "2"}
AllNames == Names \cup {""}

\* type Variable struct { Name, Value }
Variable == [Name : AllNames, Value : Values]

Var(n, v) == [Name |-> n, Value |-> v]

SeqsUpTo(S, k) == UNION {[1..m -> S] : m \in 0..k}

RECURSIVE SeqNames(_)
SeqNames(s) == IF s = <<>> THEN {} ELSE {Head(s).Name} \cup SeqNames(Tail(s))

NamesUnique(s) == \A i, j \in 1..Len(s) : s[i].Name = s[j].Name => i = j

\* ------------------------------------------------------------ CompareSets
\* remoteMap[v.Name] = v.Value for each v of remote, in order
RECURSIVE BuildRemoteMap(_, _)
BuildRemoteMap(remote, m) ==
  IF remote = <<>> THEN m
  ELSE LET v == Head(remote)
       IN BuildRemoteMap(Tail(remote),
            [n \in DOMAIN m \cup {v.Name} |->
               IF n = v.Name THEN v.Value ELSE m[n]])

EmptyMap == [n \in {} |-> "1"]

\* BuildLocalMap that keeps the empty name
RECURSIVE BuildLocalMapWithEmpty(_, _)
BuildLocalMapWithEmpty(local, m) ==
  IF local = <<>> THEN m
  ELSE LET v == Head(local)
       IN BuildLocalMapWithEmpty(Tail(local), m \cup {v.Name})

\* localMap[v.Name] = true for each v of local with a non-empty name
RECURSIVE BuildLocalMap(_, _)
BuildLocalMap(local, m) ==
  IF local = <<>> THEN m
  ELSE LET v == Head(local)
       IN BuildLocalMap(Tail(local),
            IF v.Name # "" THEN m \cup {v.Name} ELSE m)

EmptyDiff == [New |-> <<>>, Updated |-> <<>>, Unchanged |-> <<>>, Deleted |-> <<>>]

\* ClassifyLocal with the two values of a change stored the wrong way round
RECURSIVE ClassifyLocalSwapped(_, _, _)
ClassifyLocalSwapped(local, remoteMap, result) ==
  IF local = <<>> THEN result
  ELSE LET localVar == Head(local)
           next ==
             IF localVar.Name = "" THEN result
             ELSE IF localVar.Name \notin DOMAIN remoteMap
               THEN [result EXCEPT !.New = Append(@, localVar)]
             ELSE IF remoteMap[localVar.Name] # localVar.Value
               THEN [result EXCEPT !.Updated = Append(@,
                       [Name |-> localVar.Name,
                        OldValue |-> localVar.Value,
                        NewValue |-> remoteMap[localVar.Name]])]
             ELSE [result EXCEPT !.Unchanged = Append(@, localVar)]
       IN ClassifyLocalSwapped(Tail(local), remoteMap, next)

\* the loop over local: skip empty names, classify through remoteMap
RECURSIVE ClassifyLocal(_, _, _)
ClassifyLocal(local, remoteMap, result) ==
  IF local = <<>> THEN result
  ELSE LET localVar == Head(local)
           next ==
             IF localVar.Name = "" THEN result
             ELSE IF localVar.Name \notin DOMAIN remoteMap
               THEN [result EXCEPT !.New = Append(@, localVar)]
             ELSE IF remoteMap[localVar.Name] # localVar.Value
               THEN [result EXCEPT !.Updated = Append(@,
                       [Name |-> localVar.Name,
                        OldValue |-> remoteMap[localVar.Name],
                        NewValue |-> localVar.Value])]
             ELSE [result EXCEPT !.Unchanged = Append(@, localVar)]
       IN ClassifyLocal(Tail(local), remoteMap, next)

\* FindDeleted keeping the remote entries whose name is local
RECURSIVE FindDeletedInverted(_, _, _)
FindDeletedInverted(remote, localMap, result) ==
  IF remote = <<>> THEN result
  ELSE LET remoteVar == Head(remote)
       IN FindDeletedInverted(Tail(remote), localMap,
            IF remoteVar.Name \in localMap
              THEN [result EXCEPT !.Deleted = Append(@, remoteVar)]
              ELSE result)

\* the loop over remote: entries whose name is not in localMap
RECURSIVE FindDeleted(_, _, _)
FindDeleted(remote, localMap, result) ==
  IF remote = <<>> THEN result
  ELSE LET remoteVar == Head(remote)
       IN FindDeleted(Tail(remote), localMap,
            IF remoteVar.Name \notin localMap
              THEN [result EXCEPT !.Deleted = Append(@, remoteVar)]
              ELSE result)

CompareSets(local, remote) ==
  LET remoteMap == BuildRemoteMap(remote, EmptyMap)
      classified == ClassifyLocal(local, remoteMap, EmptyDiff)
      localMap == BuildLocalMap(local, {})
  IN FindDeleted(remote, localMap, classified)

\* ------------------------------------------------- prompt input handling
\* a prompt input is the sequence of characters available on standard input
NL == "\n"
Whitespace == {" ", NL, "\t", "\r"}

Inputs ==
  { <<" ", "Y", "E", "S", " ", NL>>,
    <<"n", "o", NL>>,
    <<NL>>,
    <<"y">>,
    <<>>,
    <<"y", "e", "s", "s", NL>> }

RECURSIVE IndexOf(_, _, _)
IndexOf(s, c, i) ==
  IF i > Len(s) THEN 0 ELSE IF s[i] = c THEN i ELSE IndexOf(s, c, i + 1)

\* bufio.Reader.ReadString(delim): the data up to and including the first
\* delimiter; without a delimiter, the data read so far and io.EOF
ReadString(input, delim) ==
  LET k == IndexOf(input, delim, 1)
  IN IF k = 0 THEN [line |-> input, err |-> TRUE]
     ELSE [line |-> SubSeq(input, 1, k), err |-> FALSE]

LowerChar(c) ==
  CASE c = "Y" -> "y" [] c = "E" -> "e" [] c = "S" -> "s"
    [] c = "N" -> "n" [] c = "O" -> "o" [] OTHER -> c

\* strings.ToLower
ToLower(s) == [i \in 1..Len(s) |-> LowerChar(s[i])]

RECURSIVE TrimLeft(_)
TrimLeft(s) ==
  IF s # <<>> /\ Head(s) \in Whitespace THEN TrimLeft(Tail(s)) ELSE s

RECURSIVE TrimRight(_)
TrimRight(s) ==
  IF s # <<>> /\ s[Len(s)] \in Whitespace
    THEN TrimRight(SubSeq(s, 1, Len(s) - 1)) ELSE s

\* strings.TrimSpace
TrimSpace(s) == TrimRight(TrimLeft(s))

IsYes(s) == s = <<"y", "e", "s">> \/ s = <<"y">>

\* confirmSync with the read error dropped
confirmSyncIgnoringError(input) ==
  LET r == ReadString(input, NL)
  IN IsYes(TrimSpace(ToLower(r.line)))

\* confirmSync: read a line, a read error declines, otherwise yes / y
confirmSync(input) ==
  LET r == ReadString(input, NL)
  IN IF r.err THEN FALSE ELSE IsYes(TrimSpace(ToLower(r.line)))

\* the continue-without-backup prompt with an empty answer taken as yes
continueByDefault(input) ==
  LET r == ReadString(input, NL)
      answer == TrimSpace(ToLower(r.line))
  IN IsYes(answer) \/ answer = <<>>

\* the continue-without-backup prompt of main: the read error is dropped
continueWithoutBackup(input) ==
  LET r == ReadString(input, NL)
  IN IsYes(TrimSpace(ToLower(r.line)))

\* ------------------------------------------------- FetchGitHubVariables
perPage == 100

Min(a, b) == IF a < b THEN a ELSE b

\* the list endpoint: page p of the collection, per_page entries a page
ServePage(store, p) ==
  SubSeq(store, (p - 1) * perPage + 1, Min(p * perPage, Len(store)))

\* AfterPage stopping only once more than total_count entries are held
AfterPageStrict(allVariables, pageVariables, totalCount) ==
  LET all == allVariables \o pageVariables
  IN [all |-> all,
      stop |-> Len(pageVariables) = 0 \/ Len(all) > totalCount]

\* AfterPage going on after an empty page
AfterPageIgnoringEmpty(allVariables, pageVariables, totalCount) ==
  LET all == allVariables \o pageVariables
  IN [all |-> all,
      stop |-> Len(all) >= totalCount]

\* one pass of the loop body after a 200 response: append, then decide
AfterPage(allVariables, pageVariables, totalCount) ==
  LET all == allVariables \o pageVariables
  IN [all |-> all,
      stop |-> Len(pageVariables) = 0 \/ Len(all) >= totalCount]

\* the whole loop against a server that answers every page with status 200
\* and total_count = Len(store)
RECURSIVE FetchLoop(_, _, _)
FetchLoop(store, p, allVariables) ==
  LET r == AfterPage(allVariables, ServePage(store, p), Len(store))
  IN IF r.stop THEN r.all ELSE FetchLoop(store, p + 1, r.all)

FetchGitHubVariables(store) == FetchLoop(store, 1, <<>>)

\* ------------------------------------------------------------- the state
VARIABLES
  pc,              \* position of the control thread
  exitCode,        \* process exit status, -1 while running
  diffMode,        \* --diff
  backupMode,      \* --backup
  noBackup,        \* --no-backup
  variables,       \* entries read from variables.csv
  remote,          \* the remote collection, in the server's order
  remote0,         \* the remote collection when the run started
  remoteVariables, \* result of the initial fetch
  diffResult,      \* result of CompareSets
  variablesToSync, \* the mutation set
  idx,             \* position of the apply loop in variablesToSync
  exists,          \* result of checkVariableExists for the current entry
  newCount, updateCount, failedCount,
  total,           \* the total printed in the final line, -1 before
  failedShown,     \* whether the final line prints the failed count
  confirmInput,    \* what the confirmation prompt found on standard input
  backupResult,    \* "none", "ok" or "failed"
  backupFile,      \* rows of the file whose path the backup returned
  events,          \* what the run displayed and asked, in order
  overrideInput,   \* what the continue-without-backup prompt found
  requests,        \* the requests syncVariable made for the entry at hand
  history,         \* entries attempted, acknowledged requests, errors so far
  extWrites,       \* number of changes made by another client
  page,            \* FetchGitHubVariables: page to request next
  allVariables,    \* FetchGitHubVariables: entries accumulated
  pageRequests,    \* FetchGitHubVariables: pages requested
  lastReply,       \* FetchGitHubVariables: the server's reply to the last request
  honest           \* every total_count so far was the collection's size

vars == <<pc, exitCode, diffMode, backupMode, noBackup, variables, remote,
          remote0, remoteVariables, diffResult, variablesToSync, idx, exists,
          newCount, updateCount, failedCount, total, failedShown,
          confirmInput, backupResult, backupFile, events, overrideInput,
          requests, history, extWrites, page, allVariables, pageRequests,
          lastReply, honest>>

runVars == <<exitCode, diffMode, backupMode, noBackup, variablesToSync, idx,
             exists, newCount, updateCount, failedCount, total, failedShown,
             confirmInput, backupResult, backupFile, events, overrideInput,
             requests, history, extWrites>>

fetchVars == <<page, allVariables, pageRequests, lastReply, honest>>

NoInput == <<"-">>

NoFile == <<<<"-">>>>

NoReply == [status |-> "-", totalCount |-> 0, count |-> 0]

NoHistory == [attempted |-> <<>>, created |-> 0, updated |-> 0, errors |-> 0]

\* everything a run has before its first step, given the inputs
Fresh ==
  /\ exitCode = -1
  /\ remote0 = remote
  /\ remoteVariables = <<>>
  /\ diffResult = EmptyDiff
  /\ variablesToSync = <<>>
  /\ idx = 1
  /\ exists = FALSE
  /\ newCount = 0 /\ updateCount = 0 /\ failedCount = 0
  /\ total = -1
  /\ failedShown = FALSE
  /\ confirmInput = NoInput
  /\ backupResult = "none"
  /\ backupFile = NoFile
  /\ events = <<>>
  /\ overrideInput = NoInput
  /\ requests = <<>>
  /\ history = NoHistory
  /\ extWrites = 0
  /\ page = 1
  /\ allVariables = <<>>
  /\ pageRequests = <<>>
  /\ lastReply = NoReply
  /\ honest = TRUE

\* ---------------------------------------------------- CompareSets alone
InitCompare ==
  /\ pc = "compare"
  /\ diffMode = FALSE /\ backupMode = FALSE /\ noBackup = FALSE
  /\ variables \in SeqsUpTo(Variable, MaxLocal)
  /\ remote \in SeqsUpTo(Variable, MaxRemote)
  /\ Fresh

Compare ==
  /\ pc = "compare"
  /\ pc' = "compared"
  /\ remoteVariables' = remote
  /\ diffResult' = CompareSets(variables, remote)
  /\ UNCHANGED <<variables, remote, remote0>>
  /\ UNCHANGED runVars
  /\ UNCHANGED fetchVars

NextCompare == Compare

SpecCompare == InitCompare /\ [][NextCompare]_vars

\* -------------------------------------------- FetchGitHubVariables alone
\* the collection of n entries; entry i is named i
Collection(n) == [i \in 1..n |-> [Name |-> i, Value |-> i]]

InitFetch ==
  /\ pc = "fetching"
  /\ diffMode = FALSE /\ backupMode = FALSE /\ noBackup = FALSE
  /\ variables = <<>>
  /\ \E n \in 0..MaxN : remote = Collection(n)
  /\ Fresh

\* total_count values a server may report
Totals(store) == {Len(store), 0, Len(store) + perPage}

\* FetchPage that returns the entries fetched so far along with the error
FetchPagePartial ==
  /\ pc = "fetching"
  /\ \E reply \in {"200", "status", "transport"} :
       IF reply # "200"
       THEN /\ pc' = "fetchErr"
            /\ pageRequests' = Append(pageRequests, page)
            /\ lastReply' = [status |-> reply, totalCount |-> 0, count |-> 0]
            /\ UNCHANGED <<page, honest, allVariables>>
       ELSE \E totalCount \in Totals(remote) :
              LET r == AfterPage(allVariables, ServePage(remote, page), totalCount)
              IN /\ pageRequests' = Append(pageRequests, page)
                 /\ allVariables' = r.all
                 /\ lastReply' = [status |-> reply, totalCount |-> totalCount,
                                  count |-> Len(ServePage(remote, page))]
                 /\ honest' = (honest /\ totalCount = Len(remote))
                 /\ IF r.stop
                      THEN pc' = "fetchOk" /\ page' = page
                      ELSE pc' = "fetching" /\ page' = page + 1
  /\ UNCHANGED <<variables, remote, remote0, remoteVariables, diffResult>>
  /\ UNCHANGED runVars

\* one pass of the loop: request the page; a transport error or a status
\* other than 200 returns (nil, err); otherwise append and decide
FetchPage ==
  /\ pc = "fetching"
  /\ \E reply \in {"200", "status", "transport"} :
       IF reply # "200"
       THEN /\ pc' = "fetchErr"
            /\ pageRequests' = Append(pageRequests, page)
            /\ allVariables' = <<>>
            /\ lastReply' = [status |-> reply, totalCount |-> 0, count |-> 0]
            /\ UNCHANGED <<page, honest>>
       ELSE \E totalCount \in Totals(remote) :
              LET r == AfterPage(allVariables, ServePage(remote, page), totalCount)
              IN /\ pageRequests' = Append(pageRequests, page)
                 /\ allVariables' = r.all
                 /\ lastReply' = [status |-> reply, totalCount |-> totalCount,
                                  count |-> Len(ServePage(remote, page))]
                 /\ honest' = (honest /\ totalCount = Len(remote))
                 /\ IF r.stop
                      THEN pc' = "fetchOk" /\ page' = page
                      ELSE pc' = "fetching" /\ page' = page + 1
  /\ UNCHANGED <<variables, remote, remote0, remoteVariables, diffResult>>
  /\ UNCHANGED runVars

NextFetch == FetchPage

SpecFetch == InitFetch /\ [][NextFetch]_vars

\* ------------------------------------------------------------ one run
\* readCSV keeps the rows whose trimmed name is not empty, in file order,
\* and does not merge rows of the same name
LocalFiles == SeqsUpTo([Name : Names, Value : Values], MaxLocal)

\* the remote collection holds one value a name
RemoteStores ==
  {s \in SeqsUpTo([Name : Names, Value : Values], MaxRemote) : NamesUnique(s)}

Init ==
  /\ pc = "start"
  /\ diffMode \in BOOLEAN /\ backupMode \in BOOLEAN /\ noBackup \in BOOLEAN
  /\ variables \in LocalFiles
  /\ remote \in RemoteStores
  /\ Fresh

Exit(code) == pc' = "exit" /\ exitCode' = code

Present(store, name) == \E i \in 1..Len(store) : store[i].Name = name

ValueOf(store, name) ==
  LET i == CHOOSE k \in 1..Len(store) : store[k].Name = name IN store[i].Value

\* the server's state after an acknowledged update
SetValue(store, v) ==
  [i \in 1..Len(store) |-> IF store[i].Name = v.Name THEN v ELSE store[i]]

Remove(store, name) == SelectSeq(store, LAMBDA e : e.Name # name)

\* ---- backup.go
Header == <<"Key", "Value", "Note">>

Row(v) == <<v.Name, v.Value, "">>

Rows(vs) == [i \in 1..Len(vs) |-> Row(vs[i])]

\* what can go wrong in a backup: the fetch, creating the directory, creating
\* the file, a write of the header or of a row reaching the file and failing,
\* the final flush of the buffered rows
Faults(store) ==
  {"none", "fetch", "mkdir", "create", "header", "flush"}
    \cup (IF store # <<>> THEN {"row"} ELSE {})

\* ExportVariablesToCSV: the error returned and the rows that reached the
\* file; Flush is deferred and csv.Writer.Flush returns nothing, so a failed
\* flush returns nil
ExportVariablesToCSV(vs, fault) ==
  CASE fault = "create" -> [err |-> TRUE, rows |-> NoFile]
    [] fault = "header" -> [err |-> TRUE, rows |-> <<>>]
    [] fault = "row" -> [err |-> TRUE, rows |-> <<Header>>]
    [] fault = "flush" -> [err |-> FALSE, rows |-> <<>>]
    [] OTHER -> [err |-> FALSE, rows |-> <<Header>> \o Rows(vs)]

\* BackupGitHubVariables: (filename, nil) or ("", err); file is the content
\* of the file named by the path returned
BackupGitHubVariables(store, fault) ==
  IF fault \in {"fetch", "mkdir"} THEN [err |-> TRUE, file |-> NoFile]
  ELSE LET e == ExportVariablesToCSV(FetchGitHubVariables(store), fault)
       IN [err |-> e.err, file |-> IF e.err THEN NoFile ELSE e.rows]

\* --backup: handleBackupMode, exit status 1 when the backup fails
BackupOnly ==
  /\ pc = "start" /\ backupMode
  /\ \E fault \in Faults(remote) :
       LET b == BackupGitHubVariables(remote, fault)
       IN /\ backupResult' = (IF b.err THEN "failed" ELSE "ok")
          /\ backupFile' = b.file
          /\ Exit(IF b.err THEN 1 ELSE 0)
  /\ events' = Append(events, "backup")
  /\ UNCHANGED <<diffMode, backupMode, noBackup, variables, remote, remote0,
                 remoteVariables, diffResult, variablesToSync, idx, exists,
                 newCount, updateCount, failedCount, total, failedShown,
                 confirmInput, overrideInput, requests, history, extWrites>>
  /\ UNCHANGED fetchVars

\* the initial fetch: an error is fatal
Fetch ==
  /\ pc = "start" /\ ~backupMode
  /\ \E outcome \in {"ok", "failed"} :
       IF outcome = "ok"
       THEN /\ remoteVariables' = FetchGitHubVariables(remote)
            /\ pc' = "diff"
            /\ UNCHANGED exitCode
       ELSE /\ Exit(1)
            /\ UNCHANGED remoteVariables
  /\ events' = Append(events, IF pc' = "diff" THEN "fetched" ELSE "fetchError")
  /\ UNCHANGED <<diffMode, backupMode, noBackup, variables, remote, remote0,
                 diffResult, variablesToSync, idx, exists,
                 newCount, updateCount, failedCount, total, failedShown,
                 confirmInput, backupResult, overrideInput, requests,
                 backupFile, history, extWrites>>
  /\ UNCHANGED fetchVars

RECURSIVE NewValues(_)
NewValues(updated) ==
  IF updated = <<>> THEN <<>>
  ELSE <<Var(Head(updated).Name, Head(updated).NewValue)>> \o NewValues(Tail(updated))

\* BuildSyncList that syncs the unchanged entries too
BuildSyncListAll(diff) ==
  diff.New \o NewValues(diff.Updated) \o diff.Unchanged

\* variablesToSync: New, then the new value of each Updated
BuildSyncList(diff) == diff.New \o NewValues(diff.Updated)

\* Diff that goes on to the sync in diff mode
DiffIgnoringFlag ==
  /\ pc = "diff"
  /\ diffResult' = CompareSets(variables, remoteVariables)
  /\ variablesToSync' = BuildSyncList(diffResult')
  /\ IF Len(variablesToSync') = 0
       THEN Exit(0)
       ELSE pc' = "confirm" /\ UNCHANGED exitCode
  /\ events' = Append(events, "diff")
  /\ UNCHANGED <<diffMode, backupMode, noBackup, variables, remote, remote0,
                 remoteVariables, idx, exists,
                 newCount, updateCount, failedCount, total, failedShown,
                 confirmInput, backupResult, overrideInput, requests,
                 backupFile, history, extWrites>>
  /\ UNCHANGED fetchVars

\* Diff that goes on with an empty mutation set
DiffAlwaysConfirm ==
  /\ pc = "diff"
  /\ diffResult' = CompareSets(variables, remoteVariables)
  /\ IF diffMode
       THEN Exit(0) /\ UNCHANGED variablesToSync
       ELSE /\ variablesToSync' = BuildSyncList(diffResult')
            /\ pc' = "confirm" /\ UNCHANGED exitCode
  /\ events' = Append(events, "diff")
  /\ UNCHANGED <<diffMode, backupMode, noBackup, variables, remote, remote0,
                 remoteVariables, idx, exists,
                 newCount, updateCount, failedCount, total, failedShown,
                 confirmInput, backupResult, overrideInput, requests,
                 backupFile, history, extWrites>>
  /\ UNCHANGED fetchVars

\* compare, display, leave in diff mode, build the mutation set, leave when
\* it is empty
Diff ==
  /\ pc = "diff"
  /\ diffResult' = CompareSets(variables, remoteVariables)
  /\ IF diffMode
       THEN Exit(0) /\ UNCHANGED variablesToSync
       ELSE /\ variablesToSync' = BuildSyncList(diffResult')
            /\ IF Len(variablesToSync') = 0
                 THEN Exit(0)
                 ELSE pc' = "confirm" /\ UNCHANGED exitCode
  /\ events' = Append(events, "diff")
  /\ UNCHANGED <<diffMode, backupMode, noBackup, variables, remote, remote0,
                 remoteVariables, idx, exists,
                 newCount, updateCount, failedCount, total, failedShown,
                 confirmInput, backupResult, overrideInput, requests,
                 backupFile, history, extWrites>>
  /\ UNCHANGED fetchVars

\* the confirmation prompt
Confirm ==
  /\ pc = "confirm"
  /\ \E input \in Inputs :
       /\ confirmInput' = input
       /\ IF confirmSync(input)
            THEN pc' = (IF noBackup THEN "apply" ELSE "backup") /\ UNCHANGED exitCode
            ELSE Exit(0)
  /\ events' = Append(events, "confirm")
  /\ UNCHANGED <<diffMode, backupMode, noBackup, variables, remote, remote0,
                 remoteVariables, diffResult, variablesToSync, idx, exists,
                 newCount, updateCount, failedCount, total, failedShown,
                 backupResult, overrideInput, requests, backupFile, history,
                 extWrites>>
  /\ UNCHANGED fetchVars

\* the automatic backup before the sync
Backup ==
  /\ pc = "backup"
  /\ \E fault \in Faults(remote) :
       LET b == BackupGitHubVariables(remote, fault)
       IN /\ backupResult' = (IF b.err THEN "failed" ELSE "ok")
          /\ backupFile' = b.file
          /\ pc' = (IF b.err THEN "backupPrompt" ELSE "apply")
  /\ events' = Append(events, "backup")
  /\ UNCHANGED <<exitCode, diffMode, backupMode, noBackup, variables, remote,
                 remote0, remoteVariables, diffResult, variablesToSync, idx,
                 exists, newCount, updateCount, failedCount, total,
                 failedShown, confirmInput, overrideInput, requests, history,
                 extWrites>>
  /\ UNCHANGED fetchVars

\* "Continue without backup?" after a failed backup
BackupPrompt ==
  /\ pc = "backupPrompt"
  /\ \E input \in Inputs :
       /\ overrideInput' = input
       /\ IF continueWithoutBackup(input)
            THEN pc' = "apply" /\ UNCHANGED exitCode
            ELSE Exit(0)
  /\ events' = Append(events, "override")
  /\ UNCHANGED <<diffMode, backupMode, noBackup, variables, remote, remote0,
                 remoteVariables, diffResult, variablesToSync, idx, exists,
                 newCount, updateCount, failedCount, total, failedShown,
                 confirmInput, backupResult, requests, backupFile, history,
                 extWrites>>
  /\ UNCHANGED fetchVars

\* bookkeeping of the requests made: the entry looked up, then the outcome
\* of its create or update
Attempt(v, failed) ==
  [history EXCEPT !.attempted = Append(@, v),
                  !.errors = IF failed THEN @ + 1 ELSE @]

Outcome(op, res) ==
  IF res = "error" THEN [history EXCEPT !.errors = @ + 1]
  ELSE IF op = "create" THEN [history EXCEPT !.created = @ + 1]
  ELSE [history EXCEPT !.updated = @ + 1]

Request(op, v, res) == [op |-> op, name |-> v.Name, value |-> v.Value, res |-> res]

\* newVarMap of main
newVarMap == SeqNames(diffResult.New)

\* Tally without the failed counter
TallyWithoutFailed(v, failed) ==
  IF failed
    THEN UNCHANGED <<newCount, updateCount, failedCount>>
  ELSE IF v.Name \in newVarMap
    THEN newCount' = newCount + 1 /\ UNCHANGED <<updateCount, failedCount>>
  ELSE updateCount' = updateCount + 1 /\ UNCHANGED <<newCount, failedCount>>

\* the tally of the loop body for an entry whose syncVariable returned
Tally(v, failed) ==
  IF failed
    THEN failedCount' = failedCount + 1 /\ UNCHANGED <<newCount, updateCount>>
  ELSE IF v.Name \in newVarMap
    THEN newCount' = newCount + 1 /\ UNCHANGED <<updateCount, failedCount>>
  ELSE updateCount' = updateCount + 1 /\ UNCHANGED <<newCount, failedCount>>

\* CheckExists with a failed lookup treated as fatal, as a failed fetch is
CheckExistsFatal ==
  /\ pc = "apply" /\ idx <= Len(variablesToSync)
  /\ LET v == variablesToSync[idx]
     IN IF v.Name = ""
        THEN /\ idx' = idx + 1 /\ pc' = "apply"
             /\ UNCHANGED <<exitCode, exists, requests, history, newCount, updateCount,
                            failedCount>>
        ELSE \E res \in {"true", "false", "error"} :
               /\ res = "true" => Present(remote, v.Name)
               /\ requests' = <<Request("exists", v, res)>>
               /\ history' = Attempt(v, res = "error")
               /\ IF res = "error"
                    THEN /\ Tally(v, TRUE)
                         /\ Exit(1)
                         /\ UNCHANGED <<idx, exists>>
                    ELSE /\ exists' = (res = "true")
                         /\ pc' = "mutate"
                         /\ UNCHANGED <<exitCode, idx, newCount, updateCount,
                                        failedCount>>
  /\ UNCHANGED <<diffMode, backupMode, noBackup, variables, remote,
                 remote0, remoteVariables, diffResult, variablesToSync,
                 total, failedShown, confirmInput, backupResult,
                 overrideInput, backupFile, events, extWrites>>
  /\ UNCHANGED fetchVars

\* loop head and checkVariableExists: status 200 is true, any other status
\* is false, a transport failure is an error and ends syncVariable
CheckExists ==
  /\ pc = "apply" /\ idx <= Len(variablesToSync)
  /\ LET v == variablesToSync[idx]
     IN IF v.Name = ""
        THEN /\ idx' = idx + 1 /\ pc' = "apply"
             /\ UNCHANGED <<exists, requests, history, newCount, updateCount, failedCount>>
        ELSE \E res \in {"true", "false", "error"} :
               /\ res = "true" => Present(remote, v.Name)
               /\ requests' = <<Request("exists", v, res)>>
               /\ history' = Attempt(v, res = "error")
               /\ IF res = "error"
                    THEN /\ Tally(v, TRUE)
                         /\ idx' = idx + 1 /\ pc' = "apply"
                         /\ UNCHANGED exists
                    ELSE /\ exists' = (res = "true")
                         /\ pc' = "mutate"
                         /\ UNCHANGED <<idx, newCount, updateCount, failedCount>>
  /\ UNCHANGED <<exitCode, diffMode, backupMode, noBackup, variables, remote,
                 remote0, remoteVariables, diffResult, variablesToSync,
                 total, failedShown, confirmInput, backupResult,
                 overrideInput, backupFile, events, extWrites>>
  /\ UNCHANGED fetchVars

\* Mutate that creates whatever the lookup said
MutateAlwaysCreate ==
  /\ pc = "mutate"
  /\ LET v == variablesToSync[idx]
         op == "create"
     IN \E res \in {"ok", "error"} :
          /\ res = "ok" => ~Present(remote, v.Name)
          /\ requests' = Append(requests, Request(op, v, res))
          /\ history' = Outcome(op, res)
          /\ remote' = IF res = "error" THEN remote ELSE Append(remote, v)
          /\ Tally(v, res = "error")
  /\ idx' = idx + 1
  /\ pc' = "apply"
  /\ UNCHANGED <<exitCode, diffMode, backupMode, noBackup, variables,
                 remote0, remoteVariables, diffResult, variablesToSync, exists,
                 total, failedShown, confirmInput, backupResult,
                 overrideInput, backupFile, events, extWrites>>
  /\ UNCHANGED fetchVars

\* Mutate that falls back on the other operation when the server rejects
\* the first one
MutateWithFallback ==
  /\ pc = "mutate"
  /\ LET v == variablesToSync[idx]
         op == IF exists THEN "update" ELSE "create"
         other == IF exists THEN "create" ELSE "update"
     IN \E res \in {"ok", "error"} :
          /\ res = "ok" => (Present(remote, v.Name) <=> exists)
          /\ IF res = "error" /\ (Present(remote, v.Name) <=> ~exists)
               THEN /\ requests' = requests \o <<Request(op, v, res),
                                                  Request(other, v, "ok")>>
                    /\ history' = Outcome(other, "ok")
                    /\ remote' = IF exists THEN Append(remote, v)
                                 ELSE SetValue(remote, v)
                    /\ Tally(v, FALSE)
               ELSE /\ requests' = Append(requests, Request(op, v, res))
                    /\ history' = Outcome(op, res)
                    /\ remote' = IF res = "error" THEN remote
                                 ELSE IF exists THEN SetValue(remote, v)
                                 ELSE Append(remote, v)
                    /\ Tally(v, res = "error")
  /\ idx' = idx + 1
  /\ pc' = "apply"
  /\ UNCHANGED <<exitCode, diffMode, backupMode, noBackup, variables,
                 remote0, remoteVariables, diffResult, variablesToSync, exists,
                 total, failedShown, confirmInput, backupResult,
                 overrideInput, backupFile, events, extWrites>>
  /\ UNCHANGED fetchVars

\* the rest of syncVariable: updateVariable when exists, else createVariable;
\* the server acknowledges an update (204) of a variable it has and a
\* create (201) of one it does not have; any request may fail
Mutate ==
  /\ pc = "mutate"
  /\ LET v == variablesToSync[idx]
         op == IF exists THEN "update" ELSE "create"
     IN \E res \in {"ok", "error"} :
          /\ res = "ok" => (Present(remote, v.Name) <=> exists)
          /\ requests' = Append(requests, Request(op, v, res))
          /\ history' = Outcome(op, res)
          /\ remote' = IF res = "error" THEN remote
                       ELSE IF exists THEN SetValue(remote, v)
                       ELSE Append(remote, v)
          /\ Tally(v, res = "error")
  /\ idx' = idx + 1
  /\ pc' = "apply"
  /\ UNCHANGED <<exitCode, diffMode, backupMode, noBackup, variables,
                 remote0, remoteVariables, diffResult, variablesToSync, exists,
                 total, failedShown, confirmInput, backupResult,
                 overrideInput, backupFile, events, extWrites>>
  /\ UNCHANGED fetchVars

\* the final line; main returns
Finish ==
  /\ pc = "apply" /\ idx > Len(variablesToSync)
  /\ failedShown' = (failedCount > 0)
  /\ total' = IF failedCount > 0
                THEN newCount + updateCount + failedCount
                ELSE newCount + updateCount
  /\ pc' = "done"
  /\ exitCode' = 0
  /\ UNCHANGED <<diffMode, backupMode, noBackup, variables, remote, remote0,
                 remoteVariables, diffResult, variablesToSync, idx, exists,
                 newCount, updateCount, failedCount, confirmInput,
                 backupResult, overrideInput, requests, backupFile, events, history, extWrites>>
  /\ UNCHANGED fetchVars

\* another client of the repository changes the variable being synced after
\* this run looked it up and before this run creates or updates it
ExternalWrite ==
  /\ pc = "mutate" /\ extWrites < MaxExternal
  /\ LET name == variablesToSync[idx].Name
     IN IF Present(remote, name)
          THEN remote' = Remove(remote, name)
          ELSE \E val \in Values : remote' = Append(remote, Var(name, val))
  /\ extWrites' = extWrites + 1
  /\ UNCHANGED <<pc, exitCode, diffMode, backupMode, noBackup, variables,
                 remote0, remoteVariables, diffResult, variablesToSync, idx,
                 exists, newCount, updateCount, failedCount, total,
                 failedShown, confirmInput, backupResult, overrideInput,
                 requests, backupFile, events, history>>
  /\ UNCHANGED fetchVars

Next ==
  \/ BackupOnly
  \/ Fetch
  \/ Diff
  \/ Confirm
  \/ Backup
  \/ BackupPrompt
  \/ CheckExists
  \/ Mutate
  \/ Finish
  \/ ExternalWrite

Spec == Init /\ [][Next]_vars

\* every request returns within its timeout, so the run always takes its
\* next step
FairSpec == Spec /\ WF_vars(Next)

\* --------------------------------- one run, its fetch page by page
\* the local files of at most one row
FullLocals == {s \in LocalFiles : Len(s) <= 1}

InitFull ==
  /\ pc = "fetching"
  /\ diffMode \in BOOLEAN /\ backupMode = FALSE /\ noBackup \in BOOLEAN
  /\ variables \in FullLocals
  /\ remote \in RemoteStores
  /\ Fresh

\* main after FetchGitHubVariables returned: an error is fatal, else the
\* result is the remote side of the diff
FetchReturn ==
  /\ pc \in {"fetchOk", "fetchErr"}
  /\ IF pc = "fetchErr"
       THEN /\ Exit(1)
            /\ events' = Append(events, "fetchError")
            /\ UNCHANGED remoteVariables
       ELSE /\ remoteVariables' = allVariables
            /\ pc' = "diff"
            /\ events' = Append(events, "fetched")
            /\ UNCHANGED exitCode
  /\ UNCHANGED <<diffMode, backupMode, noBackup, variables, remote, remote0,
                 diffResult, variablesToSync, idx, exists,
                 newCount, updateCount, failedCount, total, failedShown,
                 confirmInput, backupResult, overrideInput, requests,
                 backupFile, history, extWrites>>
  /\ UNCHANGED fetchVars

NextFull ==
  \/ FetchPage
  \/ FetchReturn
  \/ Diff
  \/ Confirm
  \/ Backup
  \/ BackupPrompt
  \/ CheckExists
  \/ Mutate
  \/ Finish
  \/ ExternalWrite

SpecFull == InitFull /\ [][NextFull]_vars

\* ------------------------------------------- a run, then the same again
InitTwice ==
  /\ pc = "start"
  /\ diffMode = FALSE /\ backupMode = FALSE /\ noBackup \in BOOLEAN
  /\ variables \in LocalFiles
  /\ remote \in RemoteStores
  /\ Fresh

\* the command is started again after a run that reached its final line:
\* a new process with the same flags and file against the remote collection
\* as the first run left it; the first event tells how the first run went
Rerun ==
  /\ pc = "done"
  /\ events = <<>> \/ events[1] \notin {"rerun", "rerunAfterFailure"}
  /\ pc' = "start"
  /\ events' = <<IF failedCount = 0 THEN "rerun" ELSE "rerunAfterFailure">>
  /\ exitCode' = -1
  /\ remoteVariables' = <<>>
  /\ diffResult' = EmptyDiff
  /\ variablesToSync' = <<>>
  /\ idx' = 1
  /\ exists' = FALSE
  /\ newCount' = 0 /\ updateCount' = 0 /\ failedCount' = 0
  /\ total' = -1
  /\ failedShown' = FALSE
  /\ confirmInput' = NoInput
  /\ backupResult' = "none"
  /\ backupFile' = NoFile
  /\ overrideInput' = NoInput
  /\ requests' = <<>>
  /\ history' = NoHistory
  /\ UNCHANGED <<diffMode, backupMode, noBackup, variables, remote, remote0,
                 extWrites>>
  /\ UNCHANGED fetchVars

NextTwice ==
  \/ Fetch
  \/ Diff
  \/ Confirm
  \/ Backup
  \/ BackupPrompt
  \/ CheckExists
  \/ Mutate
  \/ Finish
  \/ ExternalWrite
  \/ Rerun

SpecTwice == InitTwice /\ [][NextTwice]_vars

\* ============================================================ properties
NameSet(s) == {s[i].Name : i \in 1..Len(s)}

\* the value the last entry of that name gives it
LastValue(s, name) ==
  s[CHOOSE i \in 1..Len(s) :
      /\ s[i].Name = name
      /\ \A j \in 1..Len(s) : s[j].Name = name => j <= i].Value

MapSeq(s, F(_)) == [i \in 1..Len(s) |-> F(s[i])]

Mutating(r) == r.op \in {"create", "update"}

MutatingRequests == SelectSeq(requests, Mutating)

Acknowledged(op) == SelectSeq(requests, LAMBDA r : r.op = op /\ r.res = "ok")

\* ---- C1
\* C1: CompareSets puts every local entry with a non-empty name in exactly
\* one of New, Updated, Unchanged: New is the local entries whose name no
\* remote entry has, Unchanged those whose name is remote with the same
\* value, Updated those whose name is remote with another value, carrying
\* OldValue = the remote value and NewValue = the local value; each list in
\* local order.  The remote value of a name is the one the lookup holds,
\* that of the last remote entry of that name.
C1_Classification ==
  pc = "compared" =>
    LET R == NameSet(remote)
        isNew(e) == e.Name # "" /\ e.Name \notin R
        isSame(e) == e.Name # "" /\ e.Name \in R /\ LastValue(remote, e.Name) = e.Value
        isDiff(e) == e.Name # "" /\ e.Name \in R /\ LastValue(remote, e.Name) # e.Value
        change(e) == [Name |-> e.Name, OldValue |-> LastValue(remote, e.Name),
                      NewValue |-> e.Value]
    IN /\ diffResult.New = SelectSeq(variables, isNew)
       /\ diffResult.Unchanged = SelectSeq(variables, isSame)
       /\ diffResult.Updated = MapSeq(SelectSeq(variables, isDiff), change)

\* a new entry next to an updated one
C1_Witness ==
  /\ pc = "compared"
  /\ diffResult.New = <<Var("A", "1")>>
  /\ diffResult.Updated = <<[Name |-> "B", OldValue |-> "1", NewValue |-> "2"]>>
  /\ diffResult.Deleted = <<>>

\* ---- C2
\* C2: the names of New, Updated, Unchanged and Deleted are pairwise
\* disjoint and together are the non-empty local names and the remote names.
C2_DisjointExhaustive ==
  pc = "compared" =>
    LET n == NameSet(diffResult.New)
        u == NameSet(diffResult.Updated)
        s == NameSet(diffResult.Unchanged)
        d == NameSet(diffResult.Deleted)
    IN /\ n \cap u = {} /\ n \cap s = {} /\ n \cap d = {}
       /\ u \cap s = {} /\ u \cap d = {} /\ s \cap d = {}
       /\ n \cup u \cup s \cup d = (NameSet(variables) \ {""}) \cup NameSet(remote)

\* ---- C3
\* C3: every exists, create and update request is for a name of New or
\* Updated and for no name of Unchanged or Deleted, there is no delete
\* request, and after a run without another writer a remote entry whose name
\* the local file does not have is unchanged.
C3_OnlyChangedNames ==
  /\ \A i \in 1..Len(requests) :
       /\ requests[i].op \in {"exists", "create", "update"}
       /\ requests[i].name \in NameSet(diffResult.New) \cup NameSet(diffResult.Updated)
       /\ requests[i].name \notin NameSet(diffResult.Unchanged) \cup NameSet(diffResult.Deleted)
  /\ (pc \in {"done", "exit"} /\ extWrites = 0) =>
       \A i \in 1..Len(remote0) :
         remote0[i].Name \notin NameSet(variables) =>
           \E j \in 1..Len(remote) : remote[j] = remote0[i]

\* ---- C4
\* the inputs that hold a complete line reading yes or y
AffirmativeLines == { <<"y", NL>>, <<"y", "e", "s", NL>>, <<" ", "Y", "E", "S", " ", NL>> }

\* C4: a create or update request is issued only after the confirmation
\* prompt read a line that is yes or y once trimmed and lower-cased; after
\* any other input or a failed read the run has ended with status 0 and has
\* issued no request.
C4_ConfirmedBeforeMutation ==
  /\ MutatingRequests # <<>> => confirmInput \in AffirmativeLines
  /\ (confirmInput # NoInput /\ confirmInput \notin AffirmativeLines) =>
       (pc = "exit" /\ exitCode = 0 /\ requests = <<>>)

C4_Witness ==
  /\ confirmInput = <<" ", "Y", "E", "S", " ", NL>>
  /\ Acknowledged("create") # <<>>

\* ---- C5
\* the answers yes and y, with or without the end of the line
AffirmativeAnswers == AffirmativeLines \cup { <<"y">>, <<"y", "e", "s">> }

\* C5: without --no-backup a create or update request is issued only after
\* the backup succeeded or, the backup having failed, after the answer yes
\* or y to the continue-without-backup prompt; after an empty or any other
\* answer the run has ended with no request.
C5_BackupBeforeMutation ==
  /\ (~noBackup /\ MutatingRequests # <<>>) =>
       \/ backupResult = "ok"
       \/ backupResult = "failed" /\ overrideInput \in AffirmativeAnswers
  /\ (overrideInput # NoInput /\ overrideInput \notin AffirmativeAnswers) =>
       (pc = "exit" /\ exitCode = 0 /\ requests = <<>>)

C5_Witness ==
  /\ ~noBackup
  /\ backupResult = "failed"
  /\ overrideInput = <<"y">>
  /\ MutatingRequests # <<>>

\* ---- C6
\* the entries looked up so far are the first entries of the mutation set,
\* once each and in its order; the final line comes after the last entry
AttemptedInOrder ==
  /\ pc \in {"apply", "mutate", "done"} =>
       history.attempted =
         SubSeq(variablesToSync, 1, IF pc = "mutate" THEN idx ELSE idx - 1)
  /\ pc = "done" => (idx = Len(variablesToSync) + 1 /\ exitCode = 0)

\* C6: once the apply loop has started every entry of the mutation set is
\* attempted exactly once and in order whatever the earlier outcomes, and the
\* loop reaches the final line with exit status 0.
C6_BestEffortLoop ==
  /\ []AttemptedInOrder
  /\ (pc = "apply") ~> (pc = "done" /\ exitCode = 0)

\* the first entry failed and the second one was still synced
C6_Witness ==
  /\ pc = "done"
  /\ Len(variablesToSync) = 2
  /\ history.errors = 1
  /\ requests[Len(requests)].res = "ok"
  /\ requests[Len(requests)].name = variablesToSync[2].Name
  /\ variablesToSync[1].Name # variablesToSync[2].Name

\* ---- C7
\* C7: in the final tally the created count is the number of acknowledged
\* create requests and the updated count the number of acknowledged update
\* requests (stated for runs without another writer).
C7_TallyMatchesRequests ==
  (pc = "done" /\ extWrites = 0) =>
    /\ newCount = history.created
    /\ updateCount = history.updated

\* ---- C8
\* C8: when the loop has ended created + updated + failed is the number of
\* entries attempted, failed is the number of entries with a failed exists,
\* create or update call, and the printed total is that sum whether or not
\* the failed count is printed.
C8_TallySum ==
  pc = "done" =>
    /\ newCount + updateCount + failedCount = Len(history.attempted)
    /\ failedCount = history.errors
    /\ total = newCount + updateCount + failedCount
    /\ failedShown = (failedCount > 0)

C8_Witness ==
  /\ pc = "done"
  /\ failedCount = 1 /\ failedShown
  /\ newCount = 1
  /\ total = 2

\* ---- C9
PagesNeeded(n) == IF n = 0 THEN 1 ELSE (n + perPage - 1) \div perPage

\* C9: against n entries served in pages of 100 with total_count = n the
\* fetch requests pages 1, 2, ... in order, ceil(n/100) of them (one for
\* n = 0), and returns the n entries in the server's order.
C9_Pagination ==
  (pc = "fetchOk" /\ honest) =>
    /\ pageRequests = [i \in 1..PagesNeeded(Len(remote)) |-> i]
    /\ allVariables = remote

C9_Witness ==
  /\ pc = "fetchOk" /\ honest
  /\ Len(remote) = 250
  /\ pageRequests = <<1, 2, 3>>
  /\ Len(allVariables) = 250

\* ---- C10
\* C10: after a run that completed with no failure and without another
\* writer every name of the local file is remote with the value of its last
\* local entry.
C10_LastWriteWins ==
  (pc = "done" /\ failedCount = 0 /\ extWrites = 0) =>
    \A name \in NameSet(variables) :
      /\ Present(remote, name)
      /\ ValueOf(remote, name) = LastValue(variables, name)

\* what the run has displayed or asked so far
Shown(e) == \E i \in 1..Len(events) : events[i] = e

NoRequests == requests = <<>> /\ history = NoHistory

NoSnapshot == backupResult = "none" /\ backupFile = NoFile /\ ~Shown("backup")

NoPrompt ==
  /\ confirmInput = NoInput /\ overrideInput = NoInput
  /\ ~Shown("confirm") /\ ~Shown("override")

\* ---- C11
\* C11 as stated: whenever diff-only mode is requested, the run (its fetch
\* not having failed) ends with status 0 after displaying the diff, having
\* issued no create or update request, written no backup file and shown no
\* confirmation prompt.
C11_DiffOnly ==
  (diffMode /\ pc = "exit" /\ ~Shown("fetchError")) =>
    /\ exitCode = 0 /\ Shown("diff")
    /\ NoRequests /\ remote = remote0
    /\ backupFile = NoFile
    /\ NoPrompt

\* C11 amended: when diff-only mode is requested without backup-only mode
\* and the remote fetch succeeded, the run only displays the diff and then
\* ends with status 0: no exists, create or update request, no backup, no
\* prompt, the remote collection as it was.
C11_DiffOnlyAfterFetch ==
  (diffMode /\ ~backupMode /\ Shown("fetched")) =>
    /\ pc \in {"diff", "exit"}
    /\ pc = "exit" => (exitCode = 0 /\ events = <<"fetched", "diff">>)
    /\ NoRequests /\ remote = remote0
    /\ NoSnapshot
    /\ NoPrompt

\* the diff was displayed in diff mode and had changes to apply
C11_Witness ==
  /\ diffMode /\ ~backupMode /\ pc = "exit" /\ Shown("diff")
  /\ diffResult.New # <<>> /\ diffResult.Updated # <<>>

\* ---- C12
\* C12: when the diff computed by the run has New and Updated both empty, the
\* run ends with status 0 once the diff is displayed: no snapshot, no
\* confirmation prompt, no exists, create or update request.
C12_NothingToSync ==
  (Shown("diff") /\ diffResult.New = <<>> /\ diffResult.Updated = <<>>) =>
    /\ pc = "exit" /\ exitCode = 0
    /\ events = <<"fetched", "diff">>
    /\ NoRequests /\ remote = remote0
    /\ NoSnapshot
    /\ NoPrompt

\* a full run whose local file only repeats what the remote holds, next to
\* a remote entry the file does not list
C12_Witness ==
  /\ ~diffMode /\ pc = "exit" /\ Shown("diff")
  /\ diffResult.New = <<>> /\ diffResult.Updated = <<>>
  /\ diffResult.Unchanged # <<>> /\ diffResult.Deleted # <<>>

\* ---- C13
FetchFailed == pc = "fetchErr" \/ Shown("fetchError")

\* C13: when the initial fetch fails on any page, by a transport error or a
\* status other than 200, FetchGitHubVariables returns no entry of the pages
\* fetched before, and the run ends with status 1: no diff, no snapshot, no
\* prompt, no request afterwards.
C13_FetchFailureFatal ==
  FetchFailed =>
    /\ lastReply.status \in {"status", "transport"}
    /\ allVariables = <<>> /\ remoteVariables = <<>>
    /\ pc \in {"fetchErr", "exit"}
    /\ pc = "exit" => (exitCode = 1 /\ events = <<"fetchError">>)
    /\ diffResult = EmptyDiff /\ variablesToSync = <<>>
    /\ NoSnapshot
    /\ NoPrompt
    /\ NoRequests /\ remote = remote0

\* the second page failed after the first page had delivered every entry
\* along with a total_count larger than their number
C13_Witness ==
  /\ Shown("fetchError") /\ pc = "exit"
  /\ pageRequests = <<1, 2>> /\ Len(remote) = MaxRemote
  /\ variables # <<>> /\ ~diffMode

\* ---- C14
EntrySet(s) == {s[i] : i \in 1..Len(s)}

\* local and remote are the same set of entries, one entry a name
SameEntries ==
  /\ NamesUnique(variables) /\ NamesUnique(remote)
  /\ EntrySet(variables) = EntrySet(remote)

AllUnchanged ==
  /\ diffResult.New = <<>> /\ diffResult.Updated = <<>>
  /\ diffResult.Deleted = <<>>
  /\ diffResult.Unchanged = variables

\* C14 as stated: when local and remote hold the same entries, New, Updated
\* and Deleted (RemoteOnly) are empty and Unchanged is every entry of the
\* input.
C14_IdenticalInputs ==
  (pc = "compared" /\ SameEntries) => AllUnchanged

\* C14 amended: when local and remote hold the same entries and no entry has
\* an empty name, New, Updated and Deleted are empty and Unchanged is the
\* local input, in local order.
C14_IdenticalNamedInputs ==
  (pc = "compared" /\ SameEntries /\ "" \notin NameSet(variables)) =>
    AllUnchanged

\* the same two entries, listed in another order on the remote side
C14_Witness ==
  /\ pc = "compared"
  /\ variables = <<Var("A", "1"), Var("B", "2")>>
  /\ remote = <<Var("B", "2"), Var("A", "1")>>
  /\ diffResult.Unchanged = variables

\* ---- C15
\* C15: a local entry with an empty name is in none of New, Updated and
\* Unchanged; Deleted (RemoteOnly) is, in remote order, the remote entries
\* whose name is not the name of a local entry with a non-empty name, so a
\* remote entry with an empty name is always in it.
C15_EmptyNames ==
  pc = "compared" =>
    LET named == NameSet(variables) \ {""}
        remoteOnly(e) == e.Name \notin named
    IN /\ "" \notin NameSet(diffResult.New)
       /\ "" \notin NameSet(diffResult.Updated)
       /\ "" \notin NameSet(diffResult.Unchanged)
       /\ diffResult.Deleted = SelectSeq(remote, remoteOnly)
       /\ \A i \in 1..Len(remote) :
            remote[i].Name = "" => remote[i] \in EntrySet(diffResult.Deleted)

\* an entry with an empty name and the same value on both sides
C15_Witness ==
  /\ pc = "compared"
  /\ \E v \in Values :
       /\ Var("", v) \in EntrySet(variables)
       /\ Var("", v) \in EntrySet(remote)
       /\ Var("", v) \in EntrySet(diffResult.Deleted)
  /\ diffResult.Unchanged # <<>>

\* ---- C16
\* the requests made for the current entry are the lookup, followed by op
\* or, while the run is between the two, by nothing yet
RoutedTo(op) ==
  \/ pc = "mutate" /\ Len(requests) = 1 /\ exists = (op = "update")
  \/ pc # "mutate" /\ Len(requests) = 2 /\ requests[2].op = op

\* C16: for each entry applied the first request is the lookup; status 200
\* is followed by one update and no create, any other status by one create
\* and no update, a transport failure by no further request, the entry
\* counted as failed; every request of the entry carries its name and value.
C16_Routing ==
  requests # <<>> =>
    /\ requests[1].op = "exists"
    /\ \A i \in 1..Len(requests) :
         /\ requests[i].name = requests[1].name
         /\ requests[i].value = requests[1].value
    /\ requests[1].res = "true" => RoutedTo("update")
    /\ requests[1].res = "false" => RoutedTo("create")
    /\ requests[1].res = "error" => (Len(requests) = 1 /\ pc # "mutate")
    /\ failedCount = history.errors

\* a lookup that failed for one entry, then an entry found and updated
C16_Witness ==
  /\ Len(requests) = 2
  /\ requests[1].res = "true" /\ requests[2].op = "update"
  /\ requests[2].res = "ok"
  /\ history.errors = 1 /\ failedCount = 1 /\ Len(history.attempted) = 2

\* ---- C17
\* C17: in a full run without --no-backup the confirmation prompt is shown
\* only after the snapshot was attempted and either succeeded or had its
\* failure overridden by an affirmative answer.
C17_SnapshotBeforeConfirm ==
  (~noBackup /\ Shown("confirm")) =>
    \E i, j \in 1..Len(events) :
      /\ i < j /\ events[i] = "backup" /\ events[j] = "confirm"
      /\ \/ backupResult = "ok"
         \/ \E k \in 1..Len(events) :
              /\ i < k /\ k < j /\ events[k] = "override"
              /\ continueWithoutBackup(overrideInput)

\* ---- C18
\* C18: after a page answered with status 200 the next page is requested if
\* and only if fewer entries are held than the total_count of that page and
\* the page was not empty; after an error no page is requested.  Pages are
\* requested in order and, whatever total_count says, never more than one
\* past the last page that holds entries.
C18_StopRule ==
  /\ pc \in {"fetching", "fetchOk", "fetchErr"}
  /\ lastReply.status = "200" =>
       (pc = "fetching" <=>
          (Len(allVariables) < lastReply.totalCount /\ lastReply.count > 0))
  /\ lastReply.status \in {"status", "transport"} => pc = "fetchErr"
  /\ lastReply = NoReply => (pc = "fetching" /\ pageRequests = <<>>)
  /\ pageRequests = [i \in 1..Len(pageRequests) |-> i]
  /\ Len(pageRequests) <= Len(remote) \div perPage + 2

\* the server kept reporting more entries than it served: the fetch ended
\* on the empty page after the last entries
C18_Witness ==
  /\ pc = "fetchOk" /\ ~honest
  /\ lastReply.count = 0 /\ Len(allVariables) < lastReply.totalCount
  /\ allVariables = remote /\ Len(pageRequests) = 4

\* ---- C19
\* C19: a snapshot that returned a path without error wrote the header and
\* one row for every entry of the remote collection to the file; a run never
\* takes a backup for completed whose file misses an entry.
C19_SnapshotWritten ==
  backupResult = "ok" => backupFile = <<Header>> \o Rows(remote0)

\* ---- C20
\* the requests of the current entry: one lookup at most, one create or
\* update at most
C20_AtMostOnce ==
  /\ Len(SelectSeq(requests, LAMBDA r : r.op = "exists")) <= 1
  /\ Len(MutatingRequests) <= 1
  /\ Len(requests) <= 2

\* the step that sends the create or update of the current entry
C20_Step ==
  (pc = "mutate" /\ pc' = "apply") =>
    LET v == variablesToSync[idx]
    IN /\ requests' = Append(requests,
                        Request(IF exists THEN "update" ELSE "create", v,
                                requests'[Len(requests')].res))
       /\ idx' = idx + 1
       /\ (Present(remote, v.Name) # exists) =>
            /\ requests'[2].res = "error"
            /\ remote' = remote
            /\ failedCount' = failedCount + 1
            /\ newCount' = newCount /\ updateCount' = updateCount

\* C20: an entry causes at most one exists request and at most one create
\* or update, never both; when another writer created the variable after
\* the lookup said it was missing, or removed it after the lookup found it,
\* the one request sent is rejected, the other operation is not tried, the
\* remote collection is left as the other writer made it and the entry is
\* counted as failed.
C20_NoRetry == [][C20_AtMostOnce' /\ C20_Step]_vars

\* the variable was created by another writer between the lookup and the
\* create, which was rejected
C20_Witness ==
  /\ extWrites = 1 /\ Len(requests) = 2
  /\ requests[1].res = "false" /\ requests[2].op = "create"
  /\ requests[2].res = "error"
  /\ Present(remote, requests[1].name) /\ ~Present(remote0, requests[1].name)
  /\ failedCount = 1 /\ history.created = 0

\* ---- C21
\* the second run, started after a first run without failures, on a file
\* without repeated names, no other writer having touched the collection
SecondCleanRun ==
  /\ events # <<>> /\ events[1] = "rerun"
  /\ NamesUnique(variables)
  /\ extWrites = 0

\* C21: when the local file has no repeated names and no other writer
\* changes the remote collection, a second run started right after a run that
\* completed with zero failures computes New and Updated empty and issues no
\* exists, create or update request: it ends with status 0 after its diff.
C21_SecondRunIdle ==
  SecondCleanRun =>
    /\ pc \in {"start", "diff", "exit"}
    /\ NoRequests /\ variablesToSync = <<>>
    /\ Shown("diff") =>
         /\ diffResult.New = <<>> /\ diffResult.Updated = <<>>
         /\ diffResult.Unchanged = variables
         /\ pc = "exit" /\ exitCode = 0

\* the first run created one entry and updated another; the second run
\* finds both unchanged
C21_Witness ==
  /\ SecondCleanRun /\ Shown("diff") /\ pc = "exit"
  /\ Len(variables) = 2 /\ Len(remote0) = 1 /\ Len(remote) = 2
  /\ ValueOf(remote, remote0[1].Name) # remote0[1].Value

====
